---- MODULE Spec2Model ----
(***************************************************************************)
(* Model of src/mixed_fields.py: the MixedFields session (writer, reader,  *)
(* size-subfield codec) over a small file system.  Bytes are integers in   *)
(* 0..255 and byte strings are sequences of bytes.                         *)
(***************************************************************************)
EXTENDS Integers, Sequences, FiniteSets, TLC

(***************************************************************************)
(* Bounds of the model.                                                    *)
(***************************************************************************)
\* longest user payload handed to write_item
MaxLen == 1
\* write_item calls in one behaviour
MaxWrites == 2
\* read_item calls between two bindings of the path
MaxReads == 3
\* set_path calls in one behaviour
MaxBinds == 1
\* injected byte-stream failures in one behaviour
MaxFaults == 1
\* user fields of a file handed to a reader that did not write it
MaxFields == 1
\* largest size handed to the size-subfield codec: sizes up to it have
\* encodings of 1, 2 and 3 bytes
MaxSize == 16500

(***************************************************************************)
(* Grammar constants (class attributes of MixedFields).                    *)
(***************************************************************************)
SEP_FILE == <<28>>
SEP_RECORD == <<30>>
TAG_SIZE == 5
SIZE_BITS_PER_SIZE_BYTE == 7

TAG_HEADER == SEP_FILE \o <<77, 105, 120, 100>>
PAYLOAD_HEADER == <<70, 108, 100, 115>>
ENDBYTE_HEADER == SEP_FILE
HEADER == TAG_HEADER \o PAYLOAD_HEADER \o ENDBYTE_HEADER

TAG_METADATA == SEP_RECORD \o <<115, 77, 68, 84>>
METADATA_SIZE_FIELD_8 == <<8>>
PAYLOAD_METADATA_EMPTY == <<0, 0, 0, 0, 0, 0, 0, 0>>
PACKED_PAYLOAD_METADATA == METADATA_SIZE_FIELD_8 \o PAYLOAD_METADATA_EMPTY
ENDBYTE_META_STOP == SEP_RECORD
METADATA_FIELD_8_EMPTY == TAG_METADATA \o PACKED_PAYLOAD_METADATA \o ENDBYTE_META_STOP

TAG_EXTRA_METADATA == SEP_RECORD \o <<101, 77, 68, 84>>
ENDBYTE_EXTRA_METADATA == SEP_RECORD

TAG_DATA == SEP_RECORD \o <<115, 68, 65, 84>>
ENDBYTE_DATA == SEP_RECORD

TAG_ENDFILE == SEP_FILE \o <<120, 69, 79, 70>>
PAYLOAD_ENDFILE == <<>>
ENDBYTE_ENDFILE == SEP_FILE
ENDFILE == TAG_ENDFILE \o PAYLOAD_ENDFILE \o ENDBYTE_ENDFILE

VALID_TAGS == {TAG_HEADER, TAG_METADATA, TAG_ENDFILE, TAG_DATA, TAG_EXTRA_METADATA}

\* _is_variable_length(tag)
IsVariableLength(tag) == tag \in {TAG_DATA, TAG_METADATA, TAG_EXTRA_METADATA}

(***************************************************************************)
(* Python primitives used by the code.                                     *)
(***************************************************************************)
Min(a, b) == IF a < b THEN a ELSE b

\* fhandle.read(n) at offset pos of the byte string data: at most n bytes,
\* fewer at the end of the stream
ReadAt(data, pos, n) == SubSeq(data, pos + 1, Min(pos + n, Len(data)))

\* chunk[n:]
DropFirst(s, n) == SubSeq(s, n + 1, Len(s))

\* bin(n)[2:] as a sequence of binary digits, most significant first
RECURSIVE Bin(_)
Bin(n) == IF n < 2 THEN <<n>> ELSE Bin(n \div 2) \o <<n % 2>>

\* int(bits, 2)
RECURSIVE Int2(_)
Int2(bits) ==
    IF Len(bits) = 0 THEN 0
    ELSE 2 * Int2(SubSeq(bits, 1, Len(bits) - 1)) + bits[Len(bits)]

\* f'{bits:0>7}': left-pad with zeros to SIZE_BITS_PER_SIZE_BYTE digits
RECURSIVE PadLeft(_)
PadLeft(bits) ==
    IF Len(bits) >= SIZE_BITS_PER_SIZE_BYTE THEN bits ELSE PadLeft(<<0>> \o bits)

\* byte & 0b1000_0000 is non-zero
Carrier(b) == (b \div 128) % 2 = 1

\* an encoder that leaves the carrier bit out
SetCarrier_Dropped(num) == num

\* num | 0b10_00_00_00
SetCarrier(num) == IF Carrier(num) THEN num ELSE num + 128

(***************************************************************************)
(* Size-subfield codec.                                                    *)
(***************************************************************************)
\* the while loop of get_size_subfield from bit position `position`
RECURSIVE SizeGroups(_, _)
SizeGroups(bit_string, position) ==
    IF position < Len(bit_string)
    THEN LET chunk_as_num ==
                 Int2(SubSeq(bit_string, position + 1,
                             Min(position + SIZE_BITS_PER_SIZE_BYTE, Len(bit_string))))
             next == position + SIZE_BITS_PER_SIZE_BYTE
             out == IF next < Len(bit_string) THEN SetCarrier(chunk_as_num)
                    ELSE chunk_as_num
         IN  <<out>> \o SizeGroups(bit_string, next)
    ELSE <<>>

get_size_subfield(size) ==
    IF size = 0 THEN <<0>>
    ELSE LET bit_string == Bin(size)
             remainder == Len(bit_string) % SIZE_BITS_PER_SIZE_BYTE
             leading_bits_as_num == Int2(SubSeq(bit_string, 1, remainder))
             most_sig_byte ==
                 IF remainder # 0
                 THEN <<IF Len(bit_string) > SIZE_BITS_PER_SIZE_BYTE
                        THEN SetCarrier(leading_bits_as_num)
                        ELSE leading_bits_as_num>>
                 ELSE <<>>
         IN  most_sig_byte \o SizeGroups(bit_string, remainder)

\* a decoder that keeps the carrier digit of each byte
StripCarrier_Kept(bb) == bb

\* bb & 0b0111_1111
StripCarrier(bb) == bb % 128

\* the concatenated 7-bit groups of read_size_subfield
RECURSIVE SizeBitString(_)
SizeBitString(size_field_bytes) ==
    IF Len(size_field_bytes) = 0 THEN <<>>
    ELSE PadLeft(Bin(StripCarrier(Head(size_field_bytes))))
         \o SizeBitString(Tail(size_field_bytes))

read_size_subfield(size_field_bytes) == Int2(SizeBitString(size_field_bytes))

\* the for loop of split_sized_chunk: the bytes of the chunk up to and
\* including the first one without the carrier bit, all of them if there is none
RECURSIVE TakeSizeSubfield(_)
TakeSizeSubfield(chunk) ==
    IF Len(chunk) = 0 THEN <<>>
    ELSE IF Carrier(Head(chunk)) THEN <<Head(chunk)>> \o TakeSizeSubfield(Tail(chunk))
    ELSE <<Head(chunk)>>

\* what a call of the codec returns or raises
CodecReturn(size_value, bytes) ==
    [status |-> "return", err |-> "", size_value |-> size_value, bytes |-> bytes]
CodecRaise(err) == [status |-> "raise", err |-> err, size_value |-> 0, bytes |-> <<>>]

\* split_sized_chunk(chunk): (size_value, partial_chunk)
split_sized_chunk(chunk) ==
    IF Len(chunk) = 0 THEN CodecRaise("EMPTY_CHUNK")
    ELSE LET size_subfield == TakeSizeSubfield(chunk)
             size_value == read_size_subfield(size_subfield)
             partial_chunk == IF Len(size_subfield) < Len(chunk)
                              THEN DropFirst(chunk, Len(size_subfield))
                              ELSE <<>>
         IN  CodecReturn(size_value, partial_chunk)

(***************************************************************************)
(* State: one MixedFields session and the files it can be bound to.        *)
(***************************************************************************)
VARIABLES
    path,                  \* self._path
    bytes_written,         \* self._bytes_written
    finalized_file_write,  \* self._finalized_file_write
    head,                  \* self._head
    header,                \* self._header
    metadata,              \* self._metadata
    eof,                   \* self._eof
    files,                 \* contents of every path of the file system
    exists,                \* os.path.exists of every path
    call,                  \* the last operation called, with its tag or path argument
    result,                \* what that call returned or raised
    items,                 \* per file: the <<tag, payload>> of the write_item calls that completed on it
    shape,                 \* per file: how its bytes were produced
    nreads,                \* read_item calls since the path was bound that passed its checks
    raised,                \* some read_item since the path was bound raised a format error
    wrote,                 \* some write_item since the path was bound returned normally
    binds,                 \* set_path calls so far
    writes,                \* write_item calls so far
    faults                 \* injected byte-stream failures so far

vars == <<path, bytes_written, finalized_file_write, head, header, metadata, eof,
          files, exists, call, result, items, shape, nreads, raised, wrote,
          binds, writes, faults>>

session == <<path, bytes_written, finalized_file_write, head, header, metadata, eof>>

Paths == {"a"}
NoPath == "None"

\* bytes a caller puts in a payload
PayloadBytes == {65}

RECURSIVE SeqsUpTo(_, _)
SeqsUpTo(S, n) ==
    IF n = 0 THEN {<<>>}
    ELSE LET shorter == SeqsUpTo(S, n - 1)
         IN  shorter \cup {<<x>> \o t : x \in S, t \in {u \in shorter : Len(u) = n - 1}}

Payloads == SeqsUpTo(PayloadBytes, MaxLen)

\* self._path is not None
PathSet == path # NoPath

\* a dirty-state test that looks at the byte count alone
DirtyState_AnyBytesWritten == bytes_written > 0

\* _dirty_state()
DirtyState == bytes_written > 0 /\ ~finalized_file_write

NoArgs == [op |-> "init", tag |-> <<>>, p |-> NoPath, ignore_errors |-> FALSE]

\* result of a call: status is "return" or "raise"; err is the first argument
\* of the MixedFieldsError raised (or the Python exception class when it is
\* not a MixedFieldsError); val is "none", "sentinel" ({}) or "field"
Return(val) == [status |-> "return", err |-> "", val |-> val,
                tag |-> <<>>, payload |-> <<>>, endbyte |-> <<>>]
Raise(err) == [status |-> "raise", err |-> err, val |-> "none",
               tag |-> <<>>, payload |-> <<>>, endbyte |-> <<>>]
Field(tag, payload, endbyte) ==
    [status |-> "return", err |-> "", val |-> "field",
     tag |-> tag, payload |-> payload, endbyte |-> endbyte]

\* __init__(path): the state after construction, over an empty file system
Init ==
    /\ path \in Paths \cup {NoPath}
    /\ bytes_written = 0
    /\ finalized_file_write = FALSE
    /\ head = 0
    /\ header = <<>>
    /\ metadata = <<>>
    /\ eof = <<>>
    /\ files = [p \in Paths |-> <<>>]
    /\ exists = [p \in Paths |-> FALSE]
    /\ call = NoArgs
    /\ result = Return("none")
    /\ items = [p \in Paths |-> <<>>]
    /\ shape = [p \in Paths |-> "absent"]
    /\ nreads = 0
    /\ raised = FALSE
    /\ wrote = FALSE
    /\ binds = 0
    /\ writes = 0
    /\ faults = 0

(***************************************************************************)
(* Writer.                                                                 *)
(***************************************************************************)
\* outcome of one append to the byte stream: no failure, open() raising, or
\* flush() raising after d bytes reached the file: none of them, a proper
\* prefix (one byte stands for every prefix) or all of them
NoFault == [kind |-> "none", d |-> 0]
IsFault(f) == f.kind # "none"
FaultChoices(item_bytes) ==
    {NoFault} \cup {[kind |-> "open", d |-> 0]}
    \cup {[kind |-> "flush", d |-> k] : k \in {0, 1, Len(item_bytes)}}

\* _write(item_bytes) on the writer state w = [data, exists, bytes_written, errors]:
\* append, count the bytes, and record the returned status; an exception is
\* caught and becomes a status with STATUS = 'ERROR'
Write(w, item_bytes, f) ==
    CASE f.kind = "none" ->
           [w EXCEPT !.data = @ \o item_bytes,
                     !.exists = TRUE,
                     !.bytes_written = @ + Len(item_bytes),
                     !.statuses = Append(@, [STATUS |-> "OK", BYTE_COUNT |-> Len(item_bytes)])]
      [] f.kind = "open" ->
           [w EXCEPT !.statuses = Append(@, [STATUS |-> "ERROR", BYTE_COUNT |-> 0])]
      [] OTHER ->
           [w EXCEPT !.data = @ \o SubSeq(item_bytes, 1, f.d),
                     !.exists = TRUE,
                     !.statuses = Append(@, [STATUS |-> "ERROR", BYTE_COUNT |-> Len(item_bytes)])]

\* _write_field(tag, item_bytes, end_byte)
WriteField(w, tag, item_bytes, end_byte, f) == Write(w, tag \o item_bytes \o end_byte, f)

\* _write_header_field()
WriteHeaderField(w, f) == Write(w, HEADER, f)

\* _write_metadata()
WriteMetadata(w, f) == Write(w, METADATA_FIELD_8_EMPTY, f)

\* the open() of write_item itself (it creates the file) either succeeds or raises
OpenChoices == {NoFault, [kind |-> "open", d |-> 0]}

FaultCount(fs) == Cardinality({i \in DOMAIN fs : IsFault(fs[i])})

\* the tags of user fields
UserTags == {TAG_DATA, TAG_EXTRA_METADATA}

\* the tag check done with the variable-length predicate, which METADATA passes
WriteTagAccepted_VariableLength(tag) == IsVariableLength(tag)

\* write_item: the check of its tag argument
WriteTagAccepted(tag) == tag \in {TAG_DATA, TAG_EXTRA_METADATA}

\* the prelude written by every write_item
NeedsPrelude_Always(bw) == bw >= 0

\* write_item: the header and metadata are needed when nothing was written yet
NeedsPrelude(bw) == bw = 0

\* how write_item's appends change the history of a file
ShapeAfterWrite(old, bw, failed) ==
    CASE failed -> "other"
      [] bw = 0 /\ old = "absent" -> "open"
      [] bw > 0 /\ old = "open" -> "open"
      [] bw > 0 /\ old \in {"closed", "reopened"} -> "reopened"
      [] OTHER -> "other"

\* how close's append changes the history of a file
ShapeAfterClose(old, failed) ==
    CASE failed -> "other"
      [] old = "open" -> "closed"
      [] old = "reopened" -> "reopened"
      [] OTHER -> "other"

\* the writer state the appends of one call work on
Writer == [data |-> files[path], exists |-> exists[path],
           bytes_written |-> bytes_written, statuses |-> <<>>]

\* the bytes of a user field
UserField(tag, item_bytes) ==
    tag \o get_size_subfield(Len(item_bytes)) \o item_bytes
    \o (IF tag = TAG_DATA THEN ENDBYTE_DATA ELSE ENDBYTE_EXTRA_METADATA)

\* the appends of write_item once its checks have passed
WriteItemAppends(w, item_bytes, tag, f1, f2, f3) ==
    LET w0 == [w EXCEPT !.exists = TRUE]
        w2 == IF NeedsPrelude(w0.bytes_written)
              THEN WriteMetadata(WriteHeaderField(w0, f1), f2)
              ELSE w0
        desired_tag == tag
        desired_endbyte == IF tag = TAG_DATA THEN ENDBYTE_DATA ELSE ENDBYTE_EXTRA_METADATA
        item_size_field == get_size_subfield(Len(item_bytes))
    IN  WriteField(w2, desired_tag, item_size_field \o item_bytes, desired_endbyte, f3)

\* write_item(item_bytes, tag), with at most maxFaults byte-stream failures so far
WriteItemWith(maxFaults) ==
    \E item_bytes \in Payloads, tag \in VALID_TAGS :
      /\ call' = [NoArgs EXCEPT !.op = "write_item", !.tag = tag]
      /\ writes < MaxWrites
      /\ writes' = writes + 1
      /\ IF ~PathSet
         THEN /\ result' = Raise("PATH_NONE")
              /\ UNCHANGED <<session, files, exists, items, shape, faults, wrote>>
         ELSE IF ~WriteTagAccepted(tag)
         THEN /\ result' = Raise("INVALID_WRITE_TAG")
              /\ UNCHANGED <<session, files, exists, items, shape, faults, wrote>>
         ELSE /\ finalized_file_write' = FALSE
              /\ \E f0 \in OpenChoices :
                   IF IsFault(f0)
                   THEN /\ faults < maxFaults
                        /\ faults' = faults + 1
                        /\ result' = Raise("OSError")
                        /\ UNCHANGED <<bytes_written, files, exists, items, shape, wrote>>
                   ELSE \E f1 \in FaultChoices(HEADER), f2 \in FaultChoices(METADATA_FIELD_8_EMPTY),
                           f3 \in FaultChoices(UserField(tag, item_bytes)) :
                          LET used == IF NeedsPrelude(bytes_written) THEN <<f1, f2, f3>> ELSE <<f3>>
                              w == WriteItemAppends(Writer, item_bytes, tag, f1, f2, f3)
                          IN  /\ NeedsPrelude(bytes_written) \/ (f1 = NoFault /\ f2 = NoFault)
                              /\ faults + FaultCount(used) <= maxFaults
                              /\ faults' = faults + FaultCount(used)
                              /\ files' = [files EXCEPT ![path] = w.data]
                              /\ exists' = [exists EXCEPT ![path] = w.exists]
                              /\ bytes_written' = w.bytes_written
                              /\ items' = [items EXCEPT ![path] = Append(@, <<tag, item_bytes>>)]
                              /\ shape' = [shape EXCEPT ![path] =
                                              ShapeAfterWrite(@, bytes_written, FaultCount(used) > 0)]
                              /\ wrote' = TRUE
                              /\ result' = Return("none")
              /\ UNCHANGED <<path, head, header, metadata, eof>>
      /\ UNCHANGED <<nreads, raised, binds>>

\* close without the test of the finalized flag
CloseWritesEndfile_NoFinalizedTest(bw, finalized) == bw > 0

\* close appends the ENDFILE field when bytes were written and the file is not finalized
CloseWritesEndfile(bw, finalized) == bw > 0 /\ ~finalized

\* close(), with at most maxFaults byte-stream failures so far
CloseWith(maxFaults) ==
    /\ call' = [NoArgs EXCEPT !.op = "close"]
    /\ result' = Return("none")
    /\ finalized_file_write' = TRUE
    /\ IF CloseWritesEndfile(bytes_written, finalized_file_write)
       THEN \E f \in FaultChoices(ENDFILE) :
              LET w == Write(Writer, ENDFILE, f)
              IN  /\ faults + FaultCount(<<f>>) <= maxFaults
                  /\ faults' = faults + FaultCount(<<f>>)
                  /\ files' = [files EXCEPT ![path] = w.data]
                  /\ exists' = [exists EXCEPT ![path] = w.exists]
                  /\ bytes_written' = w.bytes_written
                  /\ shape' = [shape EXCEPT ![path] = ShapeAfterClose(@, IsFault(f))]
       ELSE UNCHANGED <<files, exists, bytes_written, shape, faults>>
    /\ UNCHANGED <<path, head, header, metadata, eof, items, nreads, raised, wrote,
                   binds, writes>>

\* the dirty-state check that raises whatever the caller's flag says
SetPathRefused_FlagIgnored(dirty, ignore_errors) == dirty

\* set_path: the check that refuses to rebind
SetPathRefused(dirty, ignore_errors) == dirty /\ ~ignore_errors

\* set_path(path, ignore_errors)
SetPath ==
    \E p \in Paths \cup {NoPath}, ignore_errors \in BOOLEAN :
      /\ binds < MaxBinds
      /\ binds' = binds + 1
      /\ call' = [NoArgs EXCEPT !.op = "set_path", !.p = p, !.ignore_errors = ignore_errors]
      /\ IF SetPathRefused(DirtyState, ignore_errors)
         THEN /\ result' = Raise("DIRTY_STATE")
              /\ UNCHANGED <<session, nreads, raised, wrote>>
         ELSE /\ result' = Return("none")
              /\ path' = p
              /\ bytes_written' = 0
              /\ finalized_file_write' = FALSE
              /\ head' = 0
              /\ header' = <<>>
              /\ metadata' = <<>>
              /\ eof' = <<>>
              /\ nreads' = 0
              /\ raised' = FALSE
              /\ wrote' = FALSE
      /\ UNCHANGED <<files, exists, items, shape, writes, faults>>

(***************************************************************************)
(* Reader.                                                                 *)
(***************************************************************************)
\* the error kinds read_item raises for a malformed stream
FormatErrors ==
    {"BAD_TAG", "BAD_HEADER", "BAD_HEADER_PAYLOAD", "BAD_HEADER_ENDBYTE",
     "BAD_METADATA_FIELD", "BAD_METADATA_PAYLOAD", "BAD_METADATA_ENDBYTE",
     "BAD_ENDFILE_ENDBYTE", "BAD_DATA_ENDBYTE", "BAD_EXTRA_METADATA_ENDBYTE",
     "MISSING_EOF"}

\* the size-subfield loop of read_item: bytes are read one at a time while the
\* last one has its carrier bit; current_byte[0] on an exhausted stream is an
\* IndexError
RECURSIVE ReadSizeSubfield(_, _, _)
ReadSizeSubfield(data, pos, size_subfield) ==
    LET current_byte == ReadAt(data, pos, 1)
    IN  IF Len(current_byte) = 0
        THEN [ok |-> FALSE, size_subfield |-> size_subfield, pos |-> pos]
        ELSE IF Carrier(current_byte[1])
        THEN ReadSizeSubfield(data, pos + 1, size_subfield \o current_byte)
        ELSE [ok |-> TRUE, size_subfield |-> size_subfield \o current_byte, pos |-> pos + 1]

\* the reader state a read_item call works on; pos is the offset of fhandle
Reader == [pos |-> head, head |-> head, header |-> header, metadata |-> metadata,
           eof |-> eof, tag |-> <<>>, chunk |-> <<>>, end_byte |-> <<>>,
           user_field_read |-> FALSE, err |-> ""]

Fail(r, err) == [r EXCEPT !.err = err]

\* the branch of the loop body for the first field of the stream
HeaderBranch(r, data, tag, chunk0, pos0) ==
    LET chunk == chunk0 \o ReadAt(data, pos0, Len(PAYLOAD_HEADER))
        pos1 == pos0 + Len(ReadAt(data, pos0, Len(PAYLOAD_HEADER)))
        end_byte == ReadAt(data, pos1, Len(ENDBYTE_HEADER))
        pos2 == pos1 + Len(end_byte)
    IN  IF tag # TAG_HEADER THEN Fail([r EXCEPT !.tag = tag, !.chunk = chunk0, !.pos = pos0], "BAD_HEADER")
        ELSE IF chunk # PAYLOAD_HEADER
        THEN Fail([r EXCEPT !.tag = tag, !.chunk = chunk, !.pos = pos1], "BAD_HEADER_PAYLOAD")
        ELSE IF end_byte # ENDBYTE_HEADER
        THEN Fail([r EXCEPT !.tag = tag, !.chunk = chunk, !.end_byte = end_byte, !.pos = pos2],
                  "BAD_HEADER_ENDBYTE")
        ELSE [r EXCEPT !.tag = tag, !.chunk = chunk, !.end_byte = end_byte, !.pos = pos2,
                       !.header = tag \o chunk \o end_byte]

\* the branch of the loop body for the field after the header
MetadataBranch(r, data, tag, chunk, pos0) ==
    LET end_byte == ReadAt(data, pos0, Len(ENDBYTE_META_STOP))
        pos1 == pos0 + Len(end_byte)
    IN  IF tag # TAG_METADATA
        THEN Fail([r EXCEPT !.tag = tag, !.chunk = chunk, !.pos = pos0], "BAD_METADATA_FIELD")
        ELSE IF chunk # PAYLOAD_METADATA_EMPTY
        THEN Fail([r EXCEPT !.tag = tag, !.chunk = chunk, !.pos = pos0], "BAD_METADATA_PAYLOAD")
        ELSE IF end_byte # ENDBYTE_META_STOP
        THEN Fail([r EXCEPT !.tag = tag, !.chunk = chunk, !.end_byte = end_byte, !.pos = pos1],
                  "BAD_METADATA_ENDBYTE")
        ELSE [r EXCEPT !.tag = tag, !.chunk = chunk, !.end_byte = end_byte, !.pos = pos1,
                       !.metadata = tag \o chunk \o end_byte]

\* the loop stops at once when the end of file field has been seen
StopsAtEof(eof_seen) == eof_seen # <<>>

\* the rest of the loop body once the header and the metadata have been
\* accepted: the end of file field, then the end byte of any other field
BodyBranch(r, data, tag, chunk, pos0) ==
    LET is_end == tag = TAG_ENDFILE
        eof_end_byte == ReadAt(data, pos0, Len(ENDBYTE_ENDFILE))
        pos1 == IF is_end THEN pos0 + Len(eof_end_byte) ELSE pos0
        end_byte1 == IF is_end THEN eof_end_byte ELSE r.end_byte
        eof1 == IF is_end THEN tag \o eof_end_byte ELSE r.eof
        r1 == [r EXCEPT !.tag = tag, !.chunk = chunk, !.end_byte = end_byte1, !.pos = pos1]
        end_byte == ReadAt(data, pos1, Len(ENDBYTE_HEADER))
        pos2 == pos1 + Len(end_byte)
        r2 == [r1 EXCEPT !.end_byte = end_byte, !.pos = pos2]
    IN  IF is_end /\ eof_end_byte # ENDBYTE_ENDFILE THEN Fail(r1, "BAD_ENDFILE_ENDBYTE")
        ELSE IF StopsAtEof(eof1)
        THEN [r1 EXCEPT !.eof = eof1, !.head = pos1, !.err = "break"]
        ELSE IF tag = TAG_DATA /\ end_byte # ENDBYTE_DATA THEN Fail(r2, "BAD_DATA_ENDBYTE")
        ELSE IF tag = TAG_EXTRA_METADATA /\ end_byte # ENDBYTE_EXTRA_METADATA
        THEN Fail(r2, "BAD_EXTRA_METADATA_ENDBYTE")
        ELSE [r2 EXCEPT !.user_field_read = tag \in {TAG_DATA, TAG_EXTRA_METADATA},
                        !.head = pos2]

\* the tag check that tests the length of the tag only
TagRejected_LengthOnly(tag) == Len(tag) < TAG_SIZE

\* read_item: the check of the tag it has just read
TagRejected(tag) == Len(tag) < TAG_SIZE \/ tag \notin VALID_TAGS

\* one pass through the body of the while loop of read_item
LoopBody(r, data) ==
    LET tag == ReadAt(data, r.pos, TAG_SIZE)
        pos0 == r.pos + Len(tag)
        sz == IF IsVariableLength(tag) THEN ReadSizeSubfield(data, pos0, <<>>)
              ELSE [ok |-> TRUE, size_subfield |-> <<>>, pos |-> pos0]
        size_value == IF sz.size_subfield # <<>> THEN read_size_subfield(sz.size_subfield) ELSE 0
        chunk == IF sz.size_subfield # <<>> THEN ReadAt(data, sz.pos, size_value) ELSE <<>>
        pos1 == sz.pos + Len(chunk)
    IN  IF TagRejected(tag)
        THEN Fail([r EXCEPT !.tag = tag, !.chunk = <<>>, !.pos = pos0], "BAD_TAG")
        ELSE IF ~sz.ok
        THEN Fail([r EXCEPT !.tag = tag, !.chunk = <<>>, !.pos = sz.pos], "IndexError")
        ELSE IF r.header = <<>> THEN HeaderBranch(r, data, tag, chunk, pos1)
        ELSE IF r.metadata = <<>> THEN MetadataBranch(r, data, tag, chunk, pos1)
        ELSE BodyBranch(r, data, tag, chunk, pos1)

\* while not user_field_read: ... until a break or an exception
RECURSIVE ReadLoop(_, _)
ReadLoop(r, data) ==
    IF r.user_field_read \/ r.err # "" THEN r ELSE ReadLoop(LoopBody(r, data), data)

\* the statement after the loop raises when no payload was read and no end of
\* file field was seen
MissingEof(chunk, eof_seen) == chunk = <<>> /\ eof_seen = <<>>

\* what read_item returns or raises once the loop has ended
ReadOutcome(r) ==
    IF r.err \notin {"", "break"} THEN Raise(r.err)
    ELSE IF MissingEof(r.chunk, r.eof) THEN Raise("MISSING_EOF")
    ELSE Field(r.tag, r.chunk, r.end_byte)

\* read_item()
ReadItem ==
    /\ nreads < MaxReads
    /\ call' = [NoArgs EXCEPT !.op = "read_item"]
    /\ IF ~PathSet
       THEN /\ result' = Raise("PATH_NONE")
            /\ UNCHANGED <<head, header, metadata, eof, nreads>>
       ELSE IF DirtyState
       THEN /\ result' = Raise("DIRTY_STATE")
            /\ UNCHANGED <<head, header, metadata, eof, nreads>>
       ELSE IF ~exists[path]
       THEN /\ result' = Raise("FILE_DOES_NOT_EXIST")
            /\ UNCHANGED <<head, header, metadata, eof, nreads>>
       ELSE IF Len(files[path]) = 0
       THEN /\ result' = Raise("FILE_EMPTY")
            /\ UNCHANGED <<head, header, metadata, eof, nreads>>
       ELSE IF ~(head < Len(files[path]))
       THEN /\ result' = Return("sentinel")
            /\ nreads' = nreads + 1
            /\ UNCHANGED <<head, header, metadata, eof>>
       ELSE LET r == ReadLoop(Reader, files[path])
            IN  /\ head' = r.head
                /\ header' = r.header
                /\ metadata' = r.metadata
                /\ eof' = r.eof
                /\ result' = ReadOutcome(r)
                /\ nreads' = nreads + 1
    /\ raised' = (raised \/ (result'.status = "raise" /\ result'.err \in FormatErrors))
    /\ UNCHANGED <<path, bytes_written, finalized_file_write, files, exists, items, shape,
                   wrote, binds, writes, faults>>

(***************************************************************************)
(* Environment: once the write_item calls of the behaviour are over, a     *)
(* file that was written and closed is cut short before the session bound  *)
(* to it reads it.                                                         *)
(***************************************************************************)
ShapeAfterTruncate(old) == IF old = "closed" THEN "truncated" ELSE "other"

Truncate ==
    \E p \in Paths :
      /\ p = path
      /\ exists[p] /\ shape[p] = "closed"
      /\ writes = MaxWrites
      /\ bytes_written = 0 /\ nreads = 0
      /\ \E k \in 0..(Len(files[p]) - 1) :
           files' = [files EXCEPT ![p] = SubSeq(@, 1, k)]
      /\ shape' = [shape EXCEPT ![p] = ShapeAfterTruncate(@)]
      /\ call' = [NoArgs EXCEPT !.op = "truncate", !.p = p]
      /\ result' = Return("none")
      /\ UNCHANGED <<session, exists, items, nreads, raised, wrote, binds, writes, faults>>

\* the operations over a byte stream that never fails
WriteItem == WriteItemWith(0)
Close == CloseWith(0)

Next ==
    \/ WriteItem
    \/ Close
    \/ SetPath
    \/ ReadItem
    \/ Truncate

Spec == Init /\ [][Next]_vars

\* the writer over a byte stream whose appends can fail
WriteItemIO == WriteItemWith(MaxFaults)
CloseIO == CloseWith(MaxFaults)

NextIO ==
    \/ WriteItemIO
    \/ CloseIO

SpecIO == Init /\ [][NextIO]_vars

(***************************************************************************)
(* A reader over files it did not write: the file of a writer (write_item  *)
(* calls, then close), whole or damaged on the way: cut short, without its *)
(* first bytes, or with one byte replaced.                                 *)
(***************************************************************************)
\* the <<tag, payload>> sequences of the write_item calls behind a file
RECURSIVE FieldSeqsOfLen(_)
FieldSeqsOfLen(n) ==
    IF n = 0 THEN {<<>>}
    ELSE {Append(fs, <<tag, item_bytes>>) :
            fs \in FieldSeqsOfLen(n - 1), tag \in UserTags, item_bytes \in Payloads}

FieldSeqs == UNION {FieldSeqsOfLen(n) : n \in 1..MaxFields}

\* the bytes of the user fields fs, in order
RECURSIVE UserFields(_)
UserFields(fs) ==
    IF fs = <<>> THEN <<>>
    ELSE UserField(Head(fs)[1], Head(fs)[2]) \o UserFields(Tail(fs))

\* the file left by write_item(fs[1]) .. write_item(fs[n]) and close() on a
\* fresh path
WrittenFile(fs) == HEADER \o METADATA_FIELD_8_EMPTY \o UserFields(fs) \o ENDFILE

\* values a damaged byte takes: NUL, the two separators, 'N', 's', and a size
\* byte with its carrier bit
DamageBytes == {0, 28, 30, 78, 115, 128}

NoDamage == [kind |-> "none", at |-> 0, byte |-> 0]

\* the ways a file of these bytes gets damaged
Damages(data) ==
    {NoDamage}
    \cup {[kind |-> "cut", at |-> k, byte |-> 0] : k \in 0..(Len(data) - 1)}
    \cup {[kind |-> "behead", at |-> k, byte |-> 0] : k \in 1..(Len(data) - 1)}
    \cup {[kind |-> "byte", at |-> i, byte |-> v] :
             i \in 1..Len(data), v \in DamageBytes}

\* the bytes of the damaged file
Damaged(data, dmg) ==
    CASE dmg.kind = "cut" -> SubSeq(data, 1, dmg.at)
      [] dmg.kind = "behead" -> DropFirst(data, dmg.at)
      [] dmg.kind = "byte" -> [data EXCEPT ![dmg.at] = dmg.byte]
      [] OTHER -> data

ShapeAfterDamage(data, dmg) ==
    CASE Damaged(data, dmg) = data -> "closed"
      [] dmg.kind = "cut" -> "truncated"
      [] OTHER -> "damaged"

\* __init__(path) on a path that holds such a file
InitReader ==
    \E fs \in FieldSeqs :
      \E dmg \in Damages(WrittenFile(fs)) :
        /\ path \in Paths
        /\ bytes_written = 0
        /\ finalized_file_write = FALSE
        /\ head = 0
        /\ header = <<>>
        /\ metadata = <<>>
        /\ eof = <<>>
        /\ files = [p \in Paths |-> Damaged(WrittenFile(fs), dmg)]
        /\ exists = [p \in Paths |-> TRUE]
        /\ call = NoArgs
        /\ result = Return("none")
        /\ items = [p \in Paths |-> fs]
        /\ shape = [p \in Paths |-> ShapeAfterDamage(WrittenFile(fs), dmg)]
        /\ nreads = 0
        /\ raised = FALSE
        /\ wrote = FALSE
        /\ binds = 0
        /\ writes = 0
        /\ faults = 0

NextReader ==
    \/ ReadItem
    \/ SetPath

SpecReader == InitReader /\ [][NextReader]_vars

(***************************************************************************)
(* The static methods of the size-subfield codec, called on their own: the *)
(* session is not used, call and result hold the arguments and the value.  *)
(* The methods keep no state, so each behaviour makes one encoder call and *)
(* hands its value to a decoder, or calls a decoder on bytes of its own.   *)
(***************************************************************************)
Sizes == 0..MaxSize

\* bytes that follow a size subfield in a chunk, and bytes of a chunk that
\* no encoder made
ChunkBytes == {0, 128}
Rests == SeqsUpTo(ChunkBytes, MaxLen)
Chunks == SeqsUpTo(ChunkBytes, MaxLen + 1)

\* arguments of a codec call; size is the size a chunk was encoded from, -1
\* when no encoder made it
CodecArgs(op, size, chunk, rest) ==
    [op |-> op, tag |-> <<>>, p |-> NoPath, ignore_errors |-> FALSE,
     size |-> size, chunk |-> chunk, rest |-> rest]

\* get_size_subfield(size)
CallGetSizeSubfield ==
    /\ call.op = "init"
    /\ \E size \in Sizes :
         /\ call' = CodecArgs("get_size_subfield", size, <<>>, <<>>)
         /\ result' = CodecReturn(size, get_size_subfield(size))
    /\ UNCHANGED <<session, files, exists, items, shape, nreads, raised, wrote,
                   binds, writes, faults>>

\* read_size_subfield(size_field_bytes), on the subfield the encoder has just
\* returned
CallReadSizeSubfield ==
    /\ call.op = "get_size_subfield"
    /\ call' = CodecArgs("read_size_subfield", call.size, result.bytes, <<>>)
    /\ result' = CodecReturn(read_size_subfield(result.bytes), <<>>)
    /\ UNCHANGED <<session, files, exists, items, shape, nreads, raised, wrote,
                   binds, writes, faults>>

\* split_sized_chunk(chunk), on the subfield the encoder has just returned
\* followed by more bytes, or on a chunk no encoder made
CallSplitSizedChunk ==
    /\ \/ /\ call.op = "get_size_subfield"
          /\ \E rest \in Rests :
               call' = CodecArgs("split_sized_chunk", call.size, result.bytes \o rest, rest)
       \/ /\ call.op = "init"
          /\ \E chunk \in Chunks :
               call' = CodecArgs("split_sized_chunk", -1, chunk, <<>>)
    /\ result' = split_sized_chunk(call'.chunk)
    /\ UNCHANGED <<session, files, exists, items, shape, nreads, raised, wrote,
                   binds, writes, faults>>

NextCodec ==
    \/ CallGetSizeSubfield
    \/ CallReadSizeSubfield
    \/ CallSplitSizedChunk

SpecCodec == Init /\ [][NextCodec]_vars

(***************************************************************************)
(* Properties.                                                             *)
(***************************************************************************)
\* the session is a reader of a file that one binding wrote on a fresh path
\* with write_item calls followed by one close
ReaderOfClosedFile ==
    /\ PathSet
    /\ bytes_written = 0
    /\ shape[path] = "closed"

\* the user field the n-th read_item call of a reader is expected to return
ExpectedField(n) == Field(items[path][n][1], items[path][n][2], SEP_RECORD)

\* the stream from offset pos on is (USER_FIELD)* ENDFILE
RECURSIVE IsBody(_, _)
IsBody(data, pos) ==
    IF DropFirst(data, pos) = ENDFILE THEN TRUE
    ELSE LET sz == ReadSizeSubfield(data, pos + TAG_SIZE, <<>>)
             end == sz.pos + read_size_subfield(sz.size_subfield)
         IN  /\ ReadAt(data, pos, TAG_SIZE) \in UserTags
             /\ sz.ok
             /\ end < Len(data)
             /\ data[end + 1] = SEP_RECORD[1]
             /\ IsBody(data, end + 1)

\* FILE := HEADER METADATA (USER_FIELD)* ENDFILE
IsWellFormedFile(data) ==
    /\ ReadAt(data, 0, Len(HEADER)) = HEADER
    /\ ReadAt(data, Len(HEADER), Len(METADATA_FIELD_8_EMPTY)) = METADATA_FIELD_8_EMPTY
    /\ IsBody(data, Len(HEADER) + Len(METADATA_FIELD_8_EMPTY))

\* C1: file round-trip: after payloads p1..pk with tags t1..tk were written to
\* a fresh path and the file was closed, the i-th read_item call of a reader
\* session on that file (i = 1..k) returns (t_i, p_i, 1E) without raising.
C1_FileRoundTrip ==
    (ReaderOfClosedFile /\ call.op = "read_item" /\ nreads \in 1..Len(items[path]))
        => result = ExpectedField(nreads)

\* C2: writer well-formedness: on a fresh path and without I/O failures, after
\* write_item and close calls that contain a write_item and end with close,
\* the file is HEADER METADATA (USER_FIELD)* ENDFILE.
C2_WriterWellFormed ==
    (/\ PathSet
     /\ shape[path] \in {"closed", "reopened"}
     /\ bytes_written > 0
     /\ finalized_file_write)
        => IsWellFormedFile(files[path])

\* C3: a zero-length payload is a legal user field: the read_item call that
\* reaches a user field of size 0 in a well-formed file returns that tag with
\* payload b"" and endbyte 1E; it neither raises nor returns the sentinel.
C3_ZeroLengthPayloadLegal ==
    (/\ ReaderOfClosedFile
     /\ call.op = "read_item"
     /\ nreads \in 1..Len(items[path])
     /\ items[path][nreads][2] = <<>>)
        => /\ result.status = "return"
           /\ result.val = "field"
           /\ result.tag = items[path][nreads][1]
           /\ result.payload = <<>>
           /\ result.endbyte = SEP_RECORD

\* C4: ENDFILE is never surfaced: no read_item call returns a result whose tag
\* is HEADER, METADATA or ENDFILE (the call that consumes ENDFILE returns the
\* empty sentinel).
C4_EndfileNeverSurfaced ==
    (call.op = "read_item" /\ result.status = "return")
        => /\ result.tag \notin {TAG_HEADER, TAG_METADATA, TAG_ENDFILE}
           /\ result.val = "field" => result.tag \in UserTags

\* C5: truncation is rejected: on a file the writer produced and that was cut
\* strictly before the end of its ENDFILE field, no read_item call returns the
\* empty sentinel before some call raised a Bad* or MissingEof error.
C5_TruncationRejected ==
    (/\ PathSet
     /\ shape[path] = "truncated"
     /\ call.op = "read_item"
     /\ result = Return("sentinel"))
        => raised

\* C6: once a read_item call has observed the first ENDFILE the cursor is one
\* past it, and every later read_item call of the reader session returns the
\* empty sentinel and leaves the cursor where it is, whatever bytes follow.
C6_SentinelAfterEndfile ==
    [][(call'.op = "read_item" /\ bytes_written = 0)
        => /\ (eof = <<>> /\ eof' # <<>>)
                => (head' >= Len(ENDFILE)
                    /\ SubSeq(files[path], head' - Len(ENDFILE) + 1, head') = ENDFILE)
           /\ eof # <<>> => (result' = Return("sentinel") /\ head' = head)]_vars

\* C7: write failures are surfaced: when an append of write_item fails, the
\* call reports a FILE_WRITE_ERROR to its caller; it never completes as if it
\* had succeeded.
C7_WriteFailuresSurfaced ==
    [][(call'.op = "write_item" /\ faults' > faults /\ result'.err # "OSError")
        => (result'.status = "raise" /\ result'.err = "FILE_WRITE_ERROR")]_vars

\* C8: EOF idempotence: a close that follows a close appends nothing; close on
\* a finalized session or on one with bytes_written = 0 appends nothing; after
\* close the session is finalized.
C8_CloseIdempotent ==
    [][call'.op = "close"
        => /\ finalized_file_write'
           /\ (finalized_file_write \/ bytes_written = 0)
                => (files' = files /\ exists' = exists /\ bytes_written' = bytes_written)
           /\ call.op = "close" => files' = files]_vars

\* a close was called on a session that had written, and the file ends with
\* the one ENDFILE it appended
C8_Witness ==
    /\ call.op = "close"
    /\ finalized_file_write
    /\ bytes_written > Len(ENDFILE)
    /\ DropFirst(files[path], bytes_written - Len(ENDFILE)) = ENDFILE
    /\ faults = 0

\* C9: empty file rule: close on a session on which no write_item succeeded
\* since it was bound writes nothing; over a stream that does not fail the
\* first write_item after binding appends HEADER, METADATA and the user field,
\* in that order, and every later one appends the user field alone.
C9_EmptyFileRule ==
    [][/\ (call'.op = "close" /\ ~wrote) => (files' = files /\ exists' = exists)
       /\ (call'.op = "write_item" /\ result'.status = "return" /\ faults' = 0)
            => LET item == items'[path][Len(items'[path])]
                   field == UserField(item[1], item[2])
               IN  files'[path] = files[path]
                                  \o (IF wrote THEN <<>> ELSE HEADER \o METADATA_FIELD_8_EMPTY)
                                  \o field]_vars

\* a session was bound to a fresh path and closed at once: no file was made
C9_Witness ==
    /\ call.op = "close"
    /\ PathSet
    /\ ~wrote
    /\ finalized_file_write
    /\ ~exists[path]

\* C10: invalid write tag: with a path set, write_item with a tag outside
\* {DATA, EXTRA_METADATA} fails INVALID_WRITE_TAG, appends nothing and leaves
\* bytes_written and the finalized flag as they were.
C10_InvalidWriteTag ==
    [][(call'.op = "write_item" /\ PathSet /\ call'.tag \notin UserTags)
        => /\ result' = Raise("INVALID_WRITE_TAG")
           /\ files' = files
           /\ exists' = exists
           /\ bytes_written' = bytes_written
           /\ finalized_file_write' = finalized_file_write]_vars

\* write_item was refused for its tag on a finalized session that had written
C10_Witness ==
    /\ call.op = "write_item"
    /\ call.tag = TAG_HEADER
    /\ result = Raise("INVALID_WRITE_TAG")
    /\ finalized_file_write
    /\ bytes_written > 0

\* C11: dirty rebinding: set_path without ignore_errors on a dirty session
\* raises DIRTY_STATE and leaves every session field as it was; any other
\* set_path binds the new path, resets bytes_written, the finalized flag, the
\* read cursor and the header, metadata and eof fields, and appends nothing to
\* any file.
C11_DirtyRebinding ==
    [][call'.op = "set_path"
        => /\ (bytes_written > 0 /\ ~finalized_file_write /\ ~call'.ignore_errors)
                => (result' = Raise("DIRTY_STATE") /\ session' = session)
           /\ ~(bytes_written > 0 /\ ~finalized_file_write /\ ~call'.ignore_errors)
                => /\ result' = Return("none")
                   /\ path' = call'.p
                   /\ bytes_written' = 0
                   /\ ~finalized_file_write'
                   /\ head' = 0
                   /\ header' = <<>> /\ metadata' = <<>> /\ eof' = <<>>
           /\ files' = files /\ exists' = exists]_vars

\* a dirty session was rebound with ignore_errors: it is reset and the file it
\* abandoned has its user field but no ENDFILE
C11_Witness ==
    /\ call.op = "set_path"
    /\ call.ignore_errors
    /\ result = Return("none")
    /\ bytes_written = 0
    /\ \E p \in Paths : /\ shape[p] = "open"
                        /\ Len(files[p]) > Len(HEADER) + Len(METADATA_FIELD_8_EMPTY)
                        /\ DropFirst(files[p], Len(files[p]) - Len(ENDFILE)) # ENDFILE

\* the first 5 bytes of the file the session is bound to
FirstTag == ReadAt(files[path], 0, TAG_SIZE)

\* C12 as claimed: on a file whose first 5 bytes are not the HEADER tag, the
\* first read_item call fails with BAD_HEADER.
C12_CorruptHeader ==
    (call.op = "read_item" /\ nreads = 1 /\ FirstTag # TAG_HEADER)
        => result = Raise("BAD_HEADER")

\* C12, amended: on a non-empty file whose first 5 bytes are not the HEADER
\* tag, the first read_item call fails: with BAD_TAG when those bytes are
\* fewer than 5 or outside the tag vocabulary (a HEADER tag with 4D changed to
\* 4E), with BAD_HEADER when they are another tag of the vocabulary, followed
\* by a complete size subfield if the tag has one.
C12_CorruptHeaderKinds ==
    (call.op = "read_item" /\ nreads = 1 /\ FirstTag # TAG_HEADER)
        => /\ result.status = "raise"
           /\ (Len(FirstTag) < TAG_SIZE \/ FirstTag \notin VALID_TAGS)
                => result = Raise("BAD_TAG")
           /\ (/\ FirstTag \in VALID_TAGS
               /\ IsVariableLength(FirstTag)
                    => ReadSizeSubfield(files[path], TAG_SIZE, <<>>).ok)
                => result = Raise("BAD_HEADER")

\* the first read_item of a file that differs from a written one in byte 1
\* alone, 4E for 4D, has raised BAD_TAG
C12_Witness ==
    /\ call.op = "read_item"
    /\ nreads = 1
    /\ files[path] = [WrittenFile(items[path]) EXCEPT ![2] = 78]
    /\ result = Raise("BAD_TAG")
    /\ head = 0

\* C13: size round-trip and self-delimitation: for every size n of the range,
\* read_size_subfield(get_size_subfield(n)) = n, and split_sized_chunk of the
\* encoding of n followed by any bytes rest returns (n, rest).
C13_SizeRoundTrip ==
    /\ call.op = "read_size_subfield" => result = CodecReturn(call.size, <<>>)
    /\ (call.op = "split_sized_chunk" /\ call.size >= 0)
         => result = CodecReturn(call.size, call.rest)

\* a three-byte encoding followed by a byte with the carrier bit was split
\* into its size and that byte
C13_Witness ==
    /\ call.op = "split_sized_chunk"
    /\ call.size = 16384
    /\ call.chunk = <<129, 128, 0, 128>>
    /\ result = CodecReturn(16384, <<128>>)

\* number of binary digits of n, 0 for n = 0
RECURSIVE BitLen(_)
BitLen(n) == IF n = 0 THEN 0 ELSE 1 + BitLen(n \div 2)

\* max(1, ceil(bitlen(n) / 7))
MinimalLen(n) ==
    LET groups == (BitLen(n) + SIZE_BITS_PER_SIZE_BYTE - 1) \div SIZE_BITS_PER_SIZE_BYTE
    IN  IF groups < 1 THEN 1 ELSE groups

\* C14: size minimality and shape: get_size_subfield(n) has exactly
\* max(1, ceil(bitlen(n)/7)) bytes, every byte but the last has its most
\* significant bit set and the last has it clear, and for n > 0 the low 7
\* bits of the first byte are not all zero (0 -> 00, 127 -> 7F, 128 -> 81 00,
\* 1023 -> 87 7F).
C14_SizeMinimalShape ==
    call.op = "get_size_subfield"
        => LET n == call.size
               b == result.bytes
           IN  /\ result.status = "return"
               /\ Len(b) = MinimalLen(n)
               /\ \A i \in 1..(Len(b) - 1) : b[i] \in 128..255
               /\ b[Len(b)] \in 0..127
               /\ n > 0 => b[1] % 128 # 0
               /\ n = 0 => b = <<0>>
               /\ n = 127 => b = <<127>>
               /\ n = 128 => b = <<129, 0>>
               /\ n = 1023 => b = <<135, 127>>

\* the encoder was called on a size of 14 binary digits, which fills two
\* groups of 7 exactly
C14_Witness ==
    /\ call.op = "get_size_subfield"
    /\ call.size = 16383
    /\ result.bytes = <<255, 127>>

\* C15: bytes_written accounting: a write_item or close call never decreases
\* bytes_written and increases it by exactly the number of bytes its appends
\* delivered to the file, so that on a fresh path bytes_written stays equal
\* to the length of the file.
C15_BytesWrittenAccounting ==
    [][(PathSet /\ call'.op \in {"write_item", "close"})
        => /\ bytes_written' >= bytes_written
           /\ bytes_written' - bytes_written = Len(files'[path]) - Len(files[path])]_vars

\* the bytes seg are one user field with this tag and payload: the tag, a
\* complete size subfield that decodes to the length of the payload, the
\* payload and the endbyte 1E
IsOneUserField(seg, tag, payload) ==
    LET sz == ReadSizeSubfield(seg, TAG_SIZE, <<>>)
    IN  /\ tag \in UserTags
        /\ ReadAt(seg, 0, TAG_SIZE) = tag
        /\ sz.ok
        /\ read_size_subfield(sz.size_subfield) = Len(payload)
        /\ seg = tag \o sz.size_subfield \o payload \o SEP_RECORD

\* the HEADER and METADATA fields of a written file
Prelude == HEADER \o METADATA_FIELD_8_EMPTY

\* a read_item call made now reads the body of the file: the session has
\* accepted the prelude, or it is at offset 0 of a file whose prelude is whole
ReadsBody ==
    /\ PathSet
    /\ ~DirtyState
    /\ head < Len(files[path])
    /\ eof = <<>>
    /\ IF header = <<>>
       THEN head = 0 /\ metadata = <<>> /\ ReadAt(files[path], 0, Len(Prelude)) = Prelude
       ELSE metadata # <<>>

\* the offset of the first field of the body that call reads
BodyStart == IF header = <<>> THEN Len(Prelude) ELSE head

\* C16: the reader enforces the body grammar: a read_item call that reads the
\* body raises when the field it comes to has the HEADER or the METADATA tag;
\* when it returns it has consumed exactly one field, the ENDFILE field or the
\* user field it returns, whose endbyte is 1E.
C16_BodyGrammar ==
    [][(call'.op = "read_item" /\ ReadsBody)
        => LET tag == ReadAt(files[path], BodyStart, TAG_SIZE)
               seg == SubSeq(files[path], BodyStart + 1, head')
           IN  /\ tag \in {TAG_HEADER, TAG_METADATA} => result'.status = "raise"
               /\ result'.status = "return"
                    => \/ eof' # <<>> /\ seg = ENDFILE
                       \/ /\ result'.val = "field"
                          /\ result'.endbyte = SEP_RECORD
                          /\ IsOneUserField(seg, result'.tag, result'.payload)]_vars

\* C17: an error is terminal for a reader session: once a read_item call has
\* raised a Bad* or MissingEof error, every later read_item call made before
\* the next set_path raises too; it returns neither a field nor the sentinel.
C17_ErrorTerminal ==
    [][(call'.op = "read_item" /\ raised) => result'.status = "raise"]_vars

\* C18 as claimed: read_item on a session that has written bytes since its
\* last set_path is rejected with an error, closed or not.
C18_ReadWriteMixingGuard ==
    [][(call'.op = "read_item" /\ bytes_written > 0) => result'.status = "raise"]_vars

\* C18, amended: read_item on a session that has written bytes since its last
\* set_path and has not been closed is rejected with DIRTY_STATE and changes
\* no session field; once close has been called the guard no longer applies
\* and the call is not rejected with DIRTY_STATE.
C18_DirtyReadGuard ==
    [][call'.op = "read_item"
        => /\ (bytes_written > 0 /\ ~finalized_file_write)
                => (result' = Raise("DIRTY_STATE") /\ session' = session)
           /\ (bytes_written > 0 /\ finalized_file_write)
                => result'.err # "DIRTY_STATE"]_vars

\* a session that wrote a file and closed it has read its own user field back
C18_Witness ==
    /\ call.op = "read_item"
    /\ bytes_written > 0
    /\ finalized_file_write
    /\ result.val = "field"
    /\ result.tag \in UserTags
    /\ result.payload = <<65>>

\* every byte of s has its carrier bit: s holds no last byte of a size subfield
AllCarrier(s) == \A i \in DOMAIN s : Carrier(s[i])

\* the offsets at which a read_item call made now is sure to read a tag: its
\* cursor and, when it starts on a whole HEADER or a whole prelude, the
\* offsets after them
TagOffsets ==
    {head}
    \cup (IF header = <<>> /\ ReadAt(files[path], 0, Len(HEADER)) = HEADER
          THEN {Len(HEADER)} ELSE {})
    \cup (IF header = <<>> /\ ReadAt(files[path], 0, Len(Prelude)) = Prelude
          THEN {Len(Prelude)} ELSE {})

\* C19: truncated size subfield: when the stream ends while the last size byte
\* read_item has read has its carrier bit, or before any size byte of a
\* variable-length field, the call fails with BAD_SIZE.
C19_TruncatedSizeSubfield ==
    [][(/\ call'.op = "read_item"
        /\ PathSet /\ ~DirtyState /\ eof = <<>>
        /\ head < Len(files[path])
        /\ \E pos \in TagOffsets :
             /\ IsVariableLength(ReadAt(files[path], pos, TAG_SIZE))
             /\ AllCarrier(DropFirst(files[path], pos + TAG_SIZE)))
        => result' = Raise("BAD_SIZE")]_vars

\* the offset of the byte stream (fhandle.tell()) at which a read_item call
\* made now stops reading
OffsetReached == ReadLoop(Reader, files[path]).pos

\* C20: cursor after a read error: when read_item raises a Bad* or MissingEof
\* error, the read cursor of the session is the offset of the stream that the
\* failing call had reached when it detected the failure.
C20_CursorAfterError ==
    [][(call'.op = "read_item" /\ result'.status = "raise" /\ result'.err \in FormatErrors)
        => head' = OffsetReached]_vars

====
